---- MODULE Spec2Model ----
(***************************************************************************)
(* State-machine model of the Hallo3 RunPod worker (handler.py) and of the *)
(* import diagnostic script (test_imports.py).                             *)
(*                                                                         *)
(* One worker process serves jobs one after another.  Every external call  *)
(* that can raise (snapshot_download, FaceAnalysis, VideoGenerator(),      *)
(* Image.open, generate_video, reading the output, os.remove, exec of an   *)
(* import line) is a nondeterministic choice between returning and raising.*)
(* The filesystem is modelled as far as the code looks at it: the network  *)
(* volume, /workspace/hallo3/pretrained_models, the marker files, the      *)
(* downloaded snapshots and the temporary files.                           *)
(***************************************************************************)
EXTENDS Integers, Sequences, FiniteSets, TLC

\* ------------------------------------------------------------------ bounds
MaxRequests == 2
MaxRestarts == 1

\* --------------------------------------------------------------- constants
None == 0
PAD == 64
JUNK == 65

Range(s) == {s[i] : i \in 1..Len(s)}

\* ------------------------------------------------------------------ base64
\* A str is a sequence of symbols: 0..63 the base64 alphabet, PAD '=',
\* JUNK any character outside the alphabet.  Bytes are 0..255.

RECURSIVE b64encode(_)
b64encode(bytes) ==
    IF Len(bytes) = 0 THEN <<>>
    ELSE IF Len(bytes) = 1 THEN
        <<bytes[1] \div 4, (bytes[1] % 4) * 16, PAD, PAD>>
    ELSE IF Len(bytes) = 2 THEN
        <<bytes[1] \div 4, (bytes[1] % 4) * 16 + bytes[2] \div 16,
          (bytes[2] % 16) * 4, PAD>>
    ELSE <<bytes[1] \div 4, (bytes[1] % 4) * 16 + bytes[2] \div 16,
           (bytes[2] % 16) * 4 + bytes[3] \div 64, bytes[3] % 64>>
         \o b64encode(SubSeq(bytes, 4, Len(bytes)))

\* binascii.a2b_base64 in non-strict mode: q holds the data symbols of the
\* current quad, pads the '=' seen since the last data symbol.
RECURSIVE a2b_base64(_, _, _, _, _)
a2b_base64(s, i, q, pads, out) ==
    IF i > Len(s) THEN
        IF Len(q) = 0 THEN [ok |-> TRUE, bytes |-> out, err |-> ""]
        ELSE IF Len(q) = 1 THEN
            [ok |-> FALSE, bytes |-> <<>>,
             err |-> "Invalid base64-encoded string"]
        ELSE [ok |-> FALSE, bytes |-> <<>>, err |-> "Incorrect padding"]
    ELSE IF s[i] = PAD THEN
        IF Len(q) >= 2 /\ Len(q) + pads + 1 >= 4
        THEN [ok |-> TRUE, bytes |-> out, err |-> ""]
        ELSE a2b_base64(s, i + 1, q, pads + 1, out)
    ELSE IF s[i] > PAD THEN a2b_base64(s, i + 1, q, pads, out)
    ELSE IF Len(q) = 0 THEN a2b_base64(s, i + 1, <<s[i]>>, 0, out)
    ELSE IF Len(q) = 1 THEN
        a2b_base64(s, i + 1, <<q[1], s[i]>>, 0,
                   Append(out, (q[1] * 4 + s[i] \div 16) % 256))
    ELSE IF Len(q) = 2 THEN
        a2b_base64(s, i + 1, <<q[1], q[2], s[i]>>, 0,
                   Append(out, ((q[2] % 16) * 16 + s[i] \div 4) % 256))
    ELSE a2b_base64(s, i + 1, <<>>, 0,
                    Append(out, ((q[3] % 4) * 64 + s[i]) % 256))

\* base64.b64decode(v): a value that is no str raises TypeError.
b64decode(v) ==
    IF v.kind # "str"
    THEN [ok |-> FALSE, bytes |-> <<>>,
          err |-> "argument should be a bytes-like object or ASCII string"]
    ELSE a2b_base64(v.s, 1, <<>>, 0, <<>>)

\* ------------------------------------------------------------------ inputs
Str(s) == [kind |-> "str", s |-> s]
Null == [kind |-> "null", s |-> <<>>]

B64_Man == Str(<<19, 22, 5, 46>>)          \* "TWFu"
B64_M == Str(<<19, 16, PAD, PAD>>)         \* "TQ=="
B64_BadPadding == Str(<<19, 22, 5>>)       \* "TWF"
B64_Junk == Str(<<19, JUNK, 22, 5, 46>>)   \* "T!WFu"

NoInput == [id |-> "job"]
JobOf(inp) == [id |-> "job", input |-> inp]

Jobs ==
    { NoInput,
      JobOf([prompt |-> Str(<<>>)]),
      JobOf([audio |-> B64_M]),
      JobOf([image |-> B64_Man]),
      JobOf([image |-> B64_Man, audio |-> B64_M]),
      JobOf([image |-> B64_Junk, audio |-> B64_Man, prompt |-> Str(<<7>>),
             driving_video |-> B64_M]),
      JobOf([image |-> B64_BadPadding, audio |-> B64_M]),
      JobOf([image |-> B64_Man, audio |-> B64_BadPadding]),
      JobOf([image |-> Null, audio |-> B64_M]),
      JobOf([image |-> B64_M, audio |-> Null]) }

\* Contents generate_video may leave in its output file.
VideoContents == { <<77>>, <<77, 97, 110, 33>> }

\* ------------------------------------------------------------------- state
VARIABLES
    generator,          \* global generator: None or the object's identity
    models_downloaded,  \* global flag
    volume,             \* VOLUME_PATH.exists()
    volDir,             \* MODELS_CACHE/pretrained_models exists
    hallo3_models,      \* HALLO3_PATH/pretrained_models: absent, dir, symlink
    imageLayout,        \* hallo3_models as the container image ships it
    marker,             \* the models directories holding .download_complete
    stored,             \* models directory -> snapshots downloaded into it
    disk,               \* temporary files on disk: name -> contents
    nextFile,           \* names handed out so far
    pc,                 \* position of the worker
    job,                \* the job being handled
    temp_files,         \* handler's local list
    gen,                \* handler's local gen
    models_dir,         \* download_models' local models_dir
    exc,                \* the exception caught by the handler, as str(e)
    result,             \* what the handler returned
    propagated,         \* the handler raised instead of returning
    requests,           \* handler invocations completed
    restarts,           \* worker restarts so far
    \* history of the current request / worker
    dlLog,              \* download steps of this request, with their outcome
    reqCalls,           \* calls made by this request
    created,            \* temporary files this request created
    removeFailed,       \* files whose os.remove raised in this request
    atEntry,            \* generator and models_downloaded at handler entry
    ctorOK,             \* successful VideoGenerator() calls of this worker
    ctorCalls,          \* VideoGenerator() calls of this worker
    dmCalls,            \* download_models calls of this worker
    completedRuns,      \* models directory -> download runs that wrote marker
    failedRuns,         \* download runs of this worker that raised
    \* test_imports.py
    ipc, idx, all_passed, out

hvars == <<generator, models_downloaded, volume, volDir, hallo3_models,
           imageLayout, marker, stored, disk, nextFile, pc, job, temp_files,
           gen, models_dir, exc, result, propagated, requests, restarts,
           dlLog, reqCalls, created, removeFailed, atEntry, ctorOK, ctorCalls,
           dmCalls, completedRuns, failedRuns>>
ivars == <<ipc, idx, all_passed, out>>
vars == <<hvars, ivars>>

\* ----------------------------------------------------------------- helpers
\* handler.py:72-92: the snapshot_download calls, in order
\* (faulty variant: the first two calls in the other order)
Repos_Swapped == <<"CogVideoX-5b", "hallo3", "wav2vec2-base-960h">>
Repos == <<"hallo3", "CogVideoX-5b", "wav2vec2-base-960h">>

NoCalls == [load_generator |-> 0, download_models |-> 0, ctor |-> 0,
            dmRaised |-> FALSE]
Pending == [pending |-> TRUE]
EmptyDisk == [f \in {} |-> <<>>]

\* Path.exists() follows symlinks; a symlink here points at the volume's
\* models directory.
Exists(h, vd) == h = "dir" \/ (h = "symlink" /\ vd)

\* handler.py:41-46
SelectModelsDir == IF volume THEN "vol" ELSE "ws"

\* models_dir.mkdir(parents=True, exist_ok=True) raises FileExistsError on a
\* dangling symlink, creates the directory when nothing is there.
MkdirRaises(d) == d = "ws" /\ hallo3_models = "symlink" /\ ~volDir
AfterMkdirLink(d) ==
    IF d = "ws" /\ hallo3_models = "absent" THEN "dir" ELSE hallo3_models
AfterMkdirVolDir(d) == IF d = "vol" THEN TRUE ELSE volDir

\* handler.py:52
SymlinkNeeded(h, vd) == ~Exists(h, vd) /\ volume

\* handler.py:58
\* (faulty variant: the marker is never looked at)
MarkerExists_Never(d) == FALSE
MarkerExists(d) == d \in marker

\* handler.py:121
\* (faulty variant: the cached generator is never reused)
GeneratorCached_Never == FALSE
GeneratorCached == generator # None

\* handler.py:112: the flag once the marker is written
\* (faulty variant: without the global statement the assignment is local)
FlagAfterDownload_Local == models_downloaded
FlagAfterDownload == TRUE

\* handler.py:72-92: a raising snapshot_download leaves download_models
\* (faulty variant: the raise is caught like the InsightFace one)
AfterSnapshot_Caught(k, ok) ==
    IF k = Len(Repos) THEN "insightface" ELSE "snapshot_download"
AfterSnapshot(k, ok) ==
    IF ~ok THEN "except"
    ELSE IF k = Len(Repos) THEN "insightface" ELSE "snapshot_download"

\* handler.py:175-178: the error message, "" when both keys are there
\* (faulty variant: the two checks in the other order)
MissingInput_AudioFirst(job_input) ==
    IF "audio" \notin DOMAIN job_input THEN "Missing required input: audio"
    ELSE IF "image" \notin DOMAIN job_input
         THEN "Missing required input: image"
         ELSE ""
MissingInput(job_input) ==
    IF "image" \notin DOMAIN job_input THEN "Missing required input: image"
    ELSE IF "audio" \notin DOMAIN job_input
         THEN "Missing required input: audio"
         ELSE ""

\* handler.py:222 and 228
VideoResult(bytes) == [video |-> b64encode(bytes)]
\* (faulty variant: the error dict carries an empty video as well)
ErrorResult_Raw(e) == [error |-> e, video |-> <<>>]
ErrorResult(e) == [error |-> e]

Cut(s, n) == IF n > Len(s) THEN s ELSE SubSeq(s, 1, n)

\* -------------------------------------------------------------------- Init
Init ==
    /\ generator = None
    /\ models_downloaded = FALSE
    /\ volume \in BOOLEAN
    /\ volDir = FALSE
    /\ hallo3_models \in {"absent", "dir", "symlink"}
    /\ imageLayout = hallo3_models
    /\ marker = {}
    /\ stored = [d \in {"vol", "ws"} |-> {}]
    /\ disk = EmptyDisk
    /\ nextFile = 0
    /\ pc = "idle"
    /\ job = NoInput
    /\ temp_files = <<>>
    /\ gen = None
    /\ models_dir = "ws"
    /\ exc = ""
    /\ result = Pending
    /\ propagated = FALSE
    /\ requests = 0
    /\ restarts = 0
    /\ dlLog = <<>>
    /\ reqCalls = NoCalls
    /\ created = {}
    /\ removeFailed = {}
    /\ atEntry = [generator |-> None, models_downloaded |-> FALSE]
    /\ ctorOK = 0
    /\ ctorCalls = 0
    /\ dmCalls = 0
    /\ completedRuns = [d \in {"vol", "ws"} |-> 0]
    /\ failedRuns = 0
    /\ ipc = "loop"
    /\ idx = 1
    /\ all_passed = TRUE
    /\ out = <<>>

fsVars == <<volume, volDir, hallo3_models, imageLayout, marker, stored>>
workerHist == <<ctorOK, ctorCalls, dmCalls, completedRuns, failedRuns>>

\* ----------------------------------------------------------------- handler
\* handler(job), lines 172-180: job["input"], the validation, temp_files = []
HandlerEntry(j) ==
    /\ pc = "idle"
    /\ requests < MaxRequests
    /\ job' = j
    /\ temp_files' = <<>>
    /\ gen' = None
    /\ exc' = ""
    /\ dlLog' = <<>>
    /\ reqCalls' = NoCalls
    /\ created' = {}
    /\ removeFailed' = {}
    /\ atEntry' = [generator |-> generator,
                   models_downloaded |-> models_downloaded]
    /\ IF "input" \notin DOMAIN j
       THEN /\ propagated' = TRUE
            /\ result' = Pending
            /\ pc' = "idle"
            /\ requests' = requests + 1
       ELSE IF MissingInput(j.input) # ""
       THEN /\ propagated' = FALSE
            /\ result' = ErrorResult(MissingInput(j.input))
            /\ pc' = "idle"
            /\ requests' = requests + 1
       ELSE /\ propagated' = FALSE
            /\ result' = Pending
            /\ pc' = "load_generator"
            /\ UNCHANGED requests
    /\ UNCHANGED <<generator, models_downloaded, fsVars, disk, nextFile,
                   models_dir, restarts, workerHist, ivars>>

\* load_generator(), lines 120-125
LoadGenerator ==
    /\ pc = "load_generator"
    /\ reqCalls' = [reqCalls EXCEPT !.load_generator = @ + 1]
    /\ IF GeneratorCached
       THEN gen' = generator /\ pc' = "decode_image"
       ELSE gen' = gen /\ pc' = "download_models"
    /\ UNCHANGED <<generator, models_downloaded, fsVars, disk, nextFile, job,
                   temp_files, models_dir, exc, result, propagated, requests,
                   restarts, dlLog, created, removeFailed, atEntry,
                   workerHist, ivars>>

\* download_models(), lines 34-68: the flag, the directory, the symlink and
\* the marker check
DownloadModels ==
    /\ pc = "download_models"
    /\ dmCalls' = dmCalls + 1
    /\ IF models_downloaded
       THEN /\ pc' = "construct"
            /\ reqCalls' = [reqCalls EXCEPT !.download_models = @ + 1]
            /\ UNCHANGED <<models_downloaded, volDir, hallo3_models,
                           models_dir, exc, failedRuns>>
       ELSE LET d == SelectModelsDir
                h1 == AfterMkdirLink(d)
                vd1 == AfterMkdirVolDir(d)
            IN  /\ models_dir' = d
                /\ IF MkdirRaises(d)
                   THEN /\ exc' = "FileExistsError"
                        /\ pc' = "except"
                        /\ reqCalls' = [reqCalls EXCEPT
                                          !.download_models = @ + 1,
                                          !.dmRaised = TRUE]
                        /\ failedRuns' = failedRuns + 1
                        /\ UNCHANGED <<models_downloaded, volDir,
                                       hallo3_models>>
                   ELSE /\ volDir' = vd1
                        /\ hallo3_models' =
                             IF SymlinkNeeded(h1, vd1) THEN "symlink" ELSE h1
                        /\ reqCalls' = [reqCalls EXCEPT
                                          !.download_models = @ + 1]
                        /\ IF MarkerExists(d)
                           THEN models_downloaded' = TRUE /\ pc' = "construct"
                           ELSE models_downloaded' = models_downloaded
                                /\ pc' = "snapshot_download"
                        /\ UNCHANGED <<exc, failedRuns>>
    /\ UNCHANGED <<generator, volume, imageLayout, marker, stored, disk,
                   nextFile, job, temp_files, gen, result, propagated,
                   requests, restarts, dlLog, created, removeFailed, atEntry,
                   ctorOK, ctorCalls, completedRuns, ivars>>

\* lines 70-92: the next snapshot_download call returns or raises
SnapshotDownload ==
    /\ pc = "snapshot_download"
    /\ LET k == Len(dlLog) + 1
           repo == Repos[k]
       IN \E ok \in BOOLEAN :
            /\ dlLog' = Append(dlLog, [repo |-> repo, ok |-> ok])
            /\ IF ok
               THEN /\ stored' = [stored EXCEPT ![models_dir] = @ \cup {repo}]
                    /\ pc' = AfterSnapshot(k, ok)
                    /\ UNCHANGED <<exc, reqCalls, failedRuns>>
               ELSE /\ exc' = "snapshot_download failed"
                    /\ pc' = AfterSnapshot(k, ok)
                    /\ reqCalls' = [reqCalls EXCEPT !.dmRaised = TRUE]
                    /\ failedRuns' = failedRuns + 1
                    /\ UNCHANGED stored
    /\ UNCHANGED <<generator, models_downloaded, volume, volDir,
                   hallo3_models, imageLayout, marker, disk, nextFile, job,
                   temp_files, gen, models_dir, result, propagated, requests,
                   restarts, created, removeFailed, atEntry, ctorOK,
                   ctorCalls, dmCalls, completedRuns, ivars>>

\* lines 94-105: FaceAnalysis downloads buffalo_l; a failure is caught
InsightFace ==
    /\ pc = "insightface"
    /\ \E ok \in BOOLEAN :
         dlLog' = Append(dlLog, [repo |-> "insightface", ok |-> ok])
    /\ pc' = "touch_marker"
    /\ UNCHANGED <<generator, models_downloaded, fsVars, disk, nextFile, job,
                   temp_files, gen, models_dir, exc, result, propagated,
                   requests, restarts, reqCalls, created, removeFailed,
                   atEntry, workerHist, ivars>>

\* lines 107-112: the marker file and the flag
TouchMarker ==
    /\ pc = "touch_marker"
    /\ marker' = marker \cup {models_dir}
    /\ models_downloaded' = FlagAfterDownload
    /\ completedRuns' = [completedRuns EXCEPT ![models_dir] = @ + 1]
    /\ pc' = "construct"
    /\ UNCHANGED <<generator, volume, volDir, hallo3_models, imageLayout,
                   stored, disk, nextFile, job, temp_files, gen, models_dir,
                   exc, result, propagated, requests, restarts, dlLog,
                   reqCalls, created, removeFailed, atEntry, ctorOK,
                   ctorCalls, dmCalls, failedRuns, ivars>>

\* load_generator(), lines 127-138: VideoGenerator() returns or raises
Construct ==
    /\ pc = "construct"
    /\ ctorCalls' = ctorCalls + 1
    /\ reqCalls' = [reqCalls EXCEPT !.ctor = @ + 1]
    /\ \E ok \in BOOLEAN :
         IF ok
         THEN /\ generator' = ctorCalls + 1
              /\ gen' = ctorCalls + 1
              /\ ctorOK' = ctorOK + 1
              /\ pc' = "decode_image"
              /\ exc' = exc
         ELSE /\ exc' = "VideoGenerator failed"
              /\ pc' = "except"
              /\ UNCHANGED <<generator, gen, ctorOK>>
    /\ UNCHANGED <<models_downloaded, fsVars, disk, nextFile, job,
                   temp_files, models_dir, result, propagated, requests,
                   restarts, dlLog, created, removeFailed, atEntry, dmCalls,
                   completedRuns, failedRuns, ivars>>

\* decode_base64_to_file(base64_data, suffix), lines 143-146: the temporary
\* file is created first; b64decode raising leaves it behind, empty, and
\* returns no name to the caller.
DecodeToFile(key, next) ==
    LET f == nextFile + 1
        d == b64decode(job.input[key])
    IN  /\ nextFile' = f
        /\ created' = created \cup {f}
        /\ disk' = [x \in DOMAIN disk \cup {f} |->
                      IF x = f THEN d.bytes ELSE disk[x]]
        /\ IF d.ok
           THEN /\ temp_files' = Append(temp_files, f)
                /\ pc' = next
                /\ exc' = exc
           ELSE /\ temp_files' = temp_files
                /\ pc' = "except"
                /\ exc' = d.err

\* handler, lines 188-189
DecodeImage ==
    /\ pc = "decode_image"
    /\ DecodeToFile("image", "decode_audio")
    /\ UNCHANGED <<generator, models_downloaded, fsVars, job, gen,
                   models_dir, result, propagated, requests, restarts, dlLog,
                   reqCalls, removeFailed, atEntry, workerHist, ivars>>

\* handler, lines 193-194
DecodeAudio ==
    /\ pc = "decode_audio"
    /\ DecodeToFile("audio", "image_open")
    /\ UNCHANGED <<generator, models_downloaded, fsVars, job, gen,
                   models_dir, result, propagated, requests, restarts, dlLog,
                   reqCalls, removeFailed, atEntry, workerHist, ivars>>

\* handler, lines 197-206: Image.open returns or raises
ImageOpen ==
    /\ pc = "image_open"
    /\ \E ok \in BOOLEAN :
         IF ok THEN pc' = "generate_video" /\ exc' = exc
         ELSE pc' = "except" /\ exc' = "cannot identify image file"
    /\ UNCHANGED <<generator, models_downloaded, fsVars, disk, nextFile, job,
                   temp_files, gen, models_dir, result, propagated, requests,
                   restarts, dlLog, reqCalls, created, removeFailed, atEntry,
                   workerHist, ivars>>

\* handler, lines 210-215: generate_video writes its output or raises
GenerateVideo ==
    /\ pc = "generate_video"
    /\ \/ \E content \in VideoContents :
            LET f == nextFile + 1
            IN  /\ nextFile' = f
                /\ created' = created \cup {f}
                /\ disk' = [x \in DOMAIN disk \cup {f} |->
                              IF x = f THEN content ELSE disk[x]]
                /\ temp_files' = Append(temp_files, f)
                /\ pc' = "encode"
                /\ exc' = exc
       \/ /\ pc' = "except"
          /\ exc' = "generate_video failed"
          /\ UNCHANGED <<nextFile, created, disk, temp_files>>
    /\ UNCHANGED <<generator, models_downloaded, fsVars, job, gen,
                   models_dir, result, propagated, requests, restarts, dlLog,
                   reqCalls, removeFailed, atEntry, workerHist, ivars>>

\* handler, lines 220-222: encode_file_to_base64 returns or raises
Encode ==
    /\ pc = "encode"
    /\ \E ok \in BOOLEAN :
         IF ok
         THEN /\ result' = VideoResult(disk[temp_files[Len(temp_files)]])
              /\ pc' = "finally"
              /\ exc' = exc
         ELSE /\ result' = result
              /\ pc' = "except"
              /\ exc' = "cannot read output"
    /\ UNCHANGED <<generator, models_downloaded, fsVars, disk, nextFile, job,
                   temp_files, gen, models_dir, propagated, requests,
                   restarts, dlLog, reqCalls, created, removeFailed, atEntry,
                   workerHist, ivars>>

\* handler, lines 224-228
Except ==
    /\ pc = "except"
    /\ result' = ErrorResult(exc)
    /\ pc' = "finally"
    /\ UNCHANGED <<generator, models_downloaded, fsVars, disk, nextFile, job,
                   temp_files, gen, models_dir, exc, propagated, requests,
                   restarts, dlLog, reqCalls, created, removeFailed, atEntry,
                   workerHist, ivars>>

\* The files the cleanup loop removes: every listed file whose os.remove
\* does not raise.
Removed(failing) == Range(temp_files) \ failing

\* handler, lines 230-237: the cleanup loop, then the return
Finally ==
    /\ pc = "finally"
    /\ \E failing \in SUBSET Range(temp_files) :
         /\ removeFailed' = failing
         /\ disk' = [x \in DOMAIN disk \ Removed(failing) |-> disk[x]]
    /\ pc' = "idle"
    /\ requests' = requests + 1
    /\ UNCHANGED <<generator, models_downloaded, fsVars, nextFile, job,
                   temp_files, gen, models_dir, exc, result, propagated,
                   restarts, dlLog, reqCalls, created, atEntry, workerHist,
                   ivars>>

\* A new worker process: the globals of lines 28-29 start over; the locals
\* and the return value of the last request are gone with the old process.  In the same container the
\* filesystem is kept; in a new container only the network volume is.
Restart ==
    /\ pc = "idle"
    /\ requests > 0
    /\ restarts < MaxRestarts
    /\ restarts' = restarts + 1
    /\ generator' = None
    /\ models_downloaded' = FALSE
    /\ ctorOK' = 0
    /\ ctorCalls' = 0
    /\ dmCalls' = 0
    /\ failedRuns' = 0
    /\ \/ UNCHANGED <<hallo3_models, marker, stored, disk, completedRuns>>
       \/ /\ hallo3_models' = imageLayout
          /\ marker' = marker \ {"ws"}
          /\ stored' = [stored EXCEPT !["ws"] = {}]
          /\ completedRuns' = [completedRuns EXCEPT !["ws"] = 0]
          /\ disk' = EmptyDisk
    /\ job' = NoInput
    /\ temp_files' = <<>>
    /\ gen' = None
    /\ models_dir' = "ws"
    /\ exc' = ""
    /\ result' = Pending
    /\ propagated' = FALSE
    /\ dlLog' = <<>>
    /\ reqCalls' = NoCalls
    /\ created' = {}
    /\ removeFailed' = {}
    /\ atEntry' = [generator |-> None, models_downloaded |-> FALSE]
    /\ UNCHANGED <<volume, volDir, imageLayout, nextFile, pc, requests,
                   ivars>>

Next ==
    \/ \E j \in Jobs : HandlerEntry(j)
    \/ LoadGenerator
    \/ DownloadModels
    \/ SnapshotDownload
    \/ InsightFace
    \/ TouchMarker
    \/ Construct
    \/ DecodeImage
    \/ DecodeAudio
    \/ ImageOpen
    \/ GenerateVideo
    \/ Encode
    \/ Except
    \/ Finally
    \/ Restart

Spec == Init /\ [][Next]_vars

\* ---------------------------------------------------------- test_imports.py
\* lines 45-56: the names, in list order
imports_to_test ==
    <<"torch", "gradio", "huggingface_hub", "transformers", "diffusers",
      "omegaconf", "sat", "sgm", "diffusion_video", "app.VideoGenerator">>

\* line 65, and all_passed untouched on success
\* (faulty variant: the last import decides)
AllPassedAfter_Last(ok) == ok
AllPassedAfter(ok) == IF ok THEN all_passed ELSE FALSE

\* lines 59-65: one pass of the loop, exec returning or raising
TestImport ==
    /\ ipc = "loop"
    /\ idx <= Len(imports_to_test)
    /\ \E ok \in BOOLEAN :
         /\ out' = Append(out, [tag |-> IF ok THEN "[OK]" ELSE "[FAIL]",
                                name |-> imports_to_test[idx]])
         /\ all_passed' = AllPassedAfter(ok)
    /\ idx' = idx + 1
    /\ ipc' = IF idx = Len(imports_to_test) THEN "summary" ELSE "loop"
    /\ UNCHANGED hvars

\* lines 67-72
Summary ==
    /\ ipc = "summary"
    /\ out' = Append(out, [tag |-> "summary",
                           name |-> IF all_passed
                                    THEN "ALL IMPORTS SUCCESSFUL!"
                                    ELSE "SOME IMPORTS FAILED - SEE ABOVE"])
    /\ ipc' = "done"
    /\ UNCHANGED <<idx, all_passed, hvars>>

NextImports ==
    \/ TestImport
    \/ Summary

SpecImports == Init /\ [][NextImports]_vars

\* ================================================================== claims
Returned == pc = "idle" /\ result # Pending
HasBoth(j) ==
    /\ "input" \in DOMAIN j
    /\ {"image", "audio"} \subseteq DOMAIN j.input
Steps == [i \in 1..Len(dlLog) |-> dlLog[i].repo]
AllSnapshotsOk ==
    /\ Len(dlLog) >= 3
    /\ \A i \in 1..3 : dlLog[i].ok
SomeSnapshotFailed == \E i \in 1..Len(dlLog) : i <= 3 /\ ~dlLog[i].ok
NoWork ==
    /\ reqCalls = NoCalls
    /\ created = {}
    /\ dlLog = <<>>
    /\ generator = atEntry.generator
    /\ models_downloaded = atEntry.models_downloaded

\* C1: within one worker process VideoGenerator() succeeds at most once; the
\* generator is None exactly as long as no construction has succeeded; once
\* it is set, no step changes it, calls the constructor or download_models
\* again, and load_generator hands back that same object.
C1_Singleton ==
    [][restarts' = restarts =>
         /\ ctorOK' <= 1
         /\ (generator' = None <=> ctorOK' = 0)
         /\ (generator # None =>
               /\ generator' = generator
               /\ ctorCalls' = ctorCalls
               /\ dmCalls' = dmCalls
               /\ (pc = "load_generator" =>
                     gen' = generator /\ pc' = "decode_image"))]_vars

\* C1 witness: a later request of the same worker got the cached generator
\* from load_generator without any constructor or download_models call.
C1_Witness ==
    /\ requests >= 1
    /\ pc = "decode_image"
    /\ reqCalls.load_generator = 1
    /\ reqCalls.ctor = 0
    /\ reqCalls.download_models = 0
    /\ gen = generator
    /\ generator # None
    /\ ctorOK = 1

\* C2: the generator exists only with models_downloaded set; the constructor
\* is reached only after a download_models call of this request returned
\* normally; a request whose download_models raised never calls it.
C2_ModelsBeforeGenerator ==
    /\ generator # None => models_downloaded
    /\ pc = "construct" =>
         /\ models_downloaded
         /\ reqCalls.download_models = 1
         /\ ~reqCalls.dmRaised
    /\ reqCalls.ctor > 0 => models_downloaded /\ ~reqCalls.dmRaised
    /\ reqCalls.dmRaised => reqCalls.ctor = 0 /\ generator = None

\* C2 witness: the generator was constructed in this request, after a full
\* download.
C2_Witness ==
    /\ pc = "decode_image"
    /\ reqCalls.ctor = 1
    /\ generator # None
    /\ Len(dlLog) = 4
    /\ models_downloaded

\* C3: snapshot_download is called only with the flag unset and no marker in
\* the selected models directory, so a models directory sees at most one
\* completed download run, whatever worker asks.
C3_DownloadOnce ==
    /\ pc = "snapshot_download" =>
         /\ ~models_downloaded
         /\ ~atEntry.models_downloaded
         /\ models_dir = SelectModelsDir
         /\ models_dir \notin marker
    /\ \A d \in {"vol", "ws"} :
         /\ completedRuns[d] <= 1
         /\ (d \in marker <=> completedRuns[d] = 1)

\* C3 witness: a new worker found the marker of an earlier worker's download
\* and went on to the constructor without downloading.
C3_Witness ==
    /\ restarts = 1
    /\ pc = "construct"
    /\ ctorCalls = 0
    /\ reqCalls.download_models = 1
    /\ dlLog = <<>>
    /\ models_downloaded
    /\ completedRuns[models_dir] = 1

\* C4 as stated: a download run that reaches the marker made exactly the
\* three snapshot downloads and no other download step.
C4_Original ==
    pc = "touch_marker" =>
        Steps = <<"hallo3", "CogVideoX-5b", "wav2vec2-base-960h">>

\* C4 amended: the download steps of a run are, in this order, hallo3,
\* CogVideoX-5b, wav2vec2-base-960h and then the InsightFace fetch; each
\* starts only after the one before returned normally, and a run that
\* reaches the marker made all four.
C4_Amended ==
    LET All == <<"hallo3", "CogVideoX-5b", "wav2vec2-base-960h",
                 "insightface">>
    IN  /\ Len(dlLog) <= 4
        /\ Steps = Cut(All, Len(dlLog))
        /\ \A i \in 1..Len(dlLog) : i < Len(dlLog) => dlLog[i].ok
        /\ pc = "snapshot_download" => Len(dlLog) < 3 /\ models_dir \notin marker
        /\ pc = "insightface" => Len(dlLog) = 3 /\ dlLog[3].ok
        /\ pc = "touch_marker" => Steps = All

\* C4 witness: a run that found no marker arrived at the marker step.
C4_Witness ==
    /\ pc = "touch_marker"
    /\ Len(dlLog) = 4
    /\ models_dir \notin marker

\* C5: a job without "image", or with "image" but without "audio", returns
\* the matching error without any call to load_generator or download_models,
\* without a temporary file, and with both globals as they were.
C5_Validation ==
    (Returned /\ "input" \in DOMAIN job) =>
        /\ "image" \notin DOMAIN job.input =>
             /\ result = [error |-> "Missing required input: image"]
             /\ NoWork
        /\ ("image" \in DOMAIN job.input /\ "audio" \notin DOMAIN job.input) =>
             /\ result = [error |-> "Missing required input: audio"]
             /\ NoWork

\* C5 witness: a worker that already holds a generator rejected a job that
\* has neither key.
C5_Witness ==
    /\ Returned
    /\ "input" \in DOMAIN job
    /\ DOMAIN job.input \cap {"image", "audio"} = {}
    /\ atEntry.generator # None
    /\ atEntry.models_downloaded

\* C6: a job with both keys never makes the handler raise; it returns a
\* one-key dict, {"video": base64 of the output file} exactly when nothing
\* raised, {"error": str(e)} otherwise.
C6_Result ==
    /\ (pc = "idle" /\ requests > 0 /\ HasBoth(job)) => ~propagated
    /\ (pc \in {"finally", "idle"} /\ result # Pending /\ HasBoth(job)) =>
         /\ Cardinality(DOMAIN result) = 1
         /\ DOMAIN result \in {{"video"}, {"error"}}
         /\ DOMAIN result = {"video"} <=>
              /\ exc = ""
              /\ models_downloaded
              /\ ~reqCalls.dmRaised
              /\ gen # None
              /\ gen = generator
              /\ Len(temp_files) = 3
         /\ DOMAIN result = {"error"} => exc # "" /\ result.error = exc
    /\ (pc = "finally" /\ DOMAIN result = {"video"}) =>
         LET content == disk[temp_files[3]]
         IN  /\ content = <<77>> => result.video = <<19, 16, 64, 64>>
             /\ content = <<77, 97, 110, 33>> =>
                  result.video = <<19, 22, 5, 46, 8, 16, 64, 64>>
             /\ content \in VideoContents

\* C6 witness: the handler returned an error for a job whose audio does not
\* decode, after the generator had been loaded.
C6_Witness ==
    /\ Returned
    /\ HasBoth(job)
    /\ result = [error |-> "Incorrect padding"]
    /\ Len(temp_files) = 1
    /\ gen # None

\* C7: every entry is attempted in list order, one [OK] or [FAIL] line each;
\* all_passed is true exactly while no import has failed and never turns
\* true again; the summary says success exactly when every import succeeded.
C7_Inv ==
    /\ idx \in 1..(Len(imports_to_test) + 1)
    /\ Len(out) = (idx - 1) + (IF ipc = "done" THEN 1 ELSE 0)
    /\ \A k \in 1..(idx - 1) :
         /\ out[k].name = imports_to_test[k]
         /\ out[k].tag \in {"[OK]", "[FAIL]"}
    /\ all_passed <=> \A k \in 1..(idx - 1) : out[k].tag = "[OK]"
    /\ ipc # "loop" => idx = Len(imports_to_test) + 1
    /\ ipc = "done" =>
         /\ out[Len(out)].tag = "summary"
         /\ out[Len(out)].name = "ALL IMPORTS SUCCESSFUL!" <=>
              \A k \in 1..Len(imports_to_test) : out[k].tag = "[OK]"
C7_Imports == []C7_Inv /\ [][~all_passed => ~all_passed']_vars

\* C7 witness: the first import failed, the later ones were still attempted
\* and succeeded, and the summary reports the failure.
C7_Witness ==
    /\ ipc = "done"
    /\ out[1].tag = "[FAIL]"
    /\ \A k \in 2..Len(imports_to_test) : out[k].tag = "[OK]"
    /\ out[Len(out)].name = "SOME IMPORTS FAILED - SEE ABOVE"

\* C8: in a run that found no marker, the marker and the flag are set
\* exactly when all three snapshot downloads returned; after a failed one
\* nothing is marked, nothing is loaded and the flag stays unset; the
\* InsightFace outcome does not matter.
C8_Marker ==
    /\ pc = "touch_marker" => AllSnapshotsOk /\ models_dir \notin marker
    /\ (dlLog # <<>> /\ pc \notin {"snapshot_download", "insightface",
                                   "touch_marker"}) =>
         /\ (models_dir \in marker /\ models_downloaded) <=> AllSnapshotsOk
         /\ AllSnapshotsOk \/ SomeSnapshotFailed
    /\ SomeSnapshotFailed =>
         /\ models_dir \notin marker
         /\ ~models_downloaded
         /\ generator = None
         /\ reqCalls.ctor = 0
         /\ pc \in {"except", "finally", "idle"}
    /\ (Len(dlLog) = 4 /\ pc # "touch_marker") =>
         /\ models_dir \in marker
         /\ models_downloaded
         /\ pc # "construct" => reqCalls.ctor = 1

\* C8 witness: after a download that failed, a later request of the worker
\* downloaded again, InsightFace failed, and the marker was written all the
\* same and the constructor reached.
C8_Witness ==
    /\ failedRuns >= 1
    /\ requests >= 1
    /\ pc = "construct"
    /\ Len(dlLog) = 4
    /\ ~dlLog[4].ok
    /\ models_dir \in marker
    /\ models_downloaded

\* C9 as stated: when the handler has returned, no temporary file it created
\* for the request is left on disk.
C9_Cleanup ==
    Returned => \A f \in created : f \notin DOMAIN disk

\* C10 as stated: once download_models has returned, pretrained_models is
\* the models directory itself without a volume and a symlink to the
\* volume's directory with one.
C10_Link ==
    (pc = "construct" /\ reqCalls.download_models = 1) =>
        /\ hallo3_models = (IF volume THEN "symlink" ELSE "dir")
        /\ (IF hallo3_models = "symlink" THEN "vol" ELSE "ws") = models_dir
====
